---- MODULE Spec2Model ----
(***************************************************************************)
(* Model of the zcosmic_keymap protocol handler of cosmic-comp             *)
(* (src/wayland/protocols/keymap.rs): the Binding Table                    *)
(* KeymapState.keymaps, the manager global and its requests, the           *)
(* per-binding requests, the destruction callback and KeymapState::refresh.*)
(***************************************************************************)
EXTENDS Integers, Sequences, FiniteSets, TLC

\* ---- bounds ----
MaxBindings == 2     \* number of zcosmic_keymap_v1 objects ever created
NumKeyboards == 1    \* keyboard devices (KeyboardHandle) of the host
MaxGroup == 1        \* layout groups are 0..MaxGroup
NumClients == 2      \* connected clients
MaxManagers == 1     \* live manager objects per client

Keyboards == 1..NumKeyboards
Groups == 0..MaxGroup
Clients == 1..NumClients
Ids == 1..MaxBindings

\* Option<T>: None is the empty sequence, Some(x) the one-element sequence.
None == <<>>
Some(x) == <<x>>

VARIABLES
  keymaps,     \* KeymapState.keymaps: Vec<(ZcosmicKeymapV1, Option<Layout>)>
  data,        \* KeymapUserData.handle of every keymap object (None once dropped)
  layout,      \* active layout of every keyboard (xkb state behind KeyboardHandle)
  removed,     \* for every keyboard 0 while the device is there, else nextId at its
               \* removal: the objects below it were created before the removal
  managers,    \* number of live manager objects of each client
  owner,       \* client owning each live keymap object (0 once destroyed)
  nextId,      \* identity of the next protocol object
  destroyed,   \* keymap objects whose destroyed callback has run
  emitted,     \* group events sent by the last operation, in order: <<keymap, group>>
  lastEvent,   \* last group event sent to each live keymap object (None: never)
  op,          \* the last operation: with its arguments when observe = "op",
               \* otherwise only whether it was a refresh ("refresh" or "other")
  observe,     \* which observer is on: "op" (op in full, Spec), "pass" (passLayout,
               \* passLive, passInfo, SpecPass), "sg" (byPass, sg, SpecSg),
               \* "life" (life, SpecLife), "chg" (chg, SpecChg) or "none"
               \* (SpecFair); the variables of the observers that are off stay put
  passLayout,  \* layout of each keyboard at the last refresh (None: no refresh yet)
  passLive,    \* live keymap objects that were in the table at the last refresh
  passInfo,    \* when the last operation was a refresh: how it relates to the one before
  byPass,      \* live keymap objects whose last group event was sent by refresh
  sg,          \* one observed SetGroup request and the events since
  life,        \* one observed keymap object from its creation to its destruction
  chg          \* one observed keymap object with a handle: changes and events

vars == <<keymaps, data, layout, removed, managers, owner, nextId, destroyed, emitted,
          lastEvent, op, observe, passLayout, passLive, passInfo, byPass, sg,
          life, chg>>

Created == 1..(nextId - 1)
Live == Created \ destroyed

NoOp == [name |-> "Init", keymap |-> 0, keyboard |-> 0, group |-> 0, client |-> 0]

\* passInfo of a refresh: the keyboards whose layout differs from the one at the
\* previous refresh, the objects that were in the table at the previous refresh,
\* and whether the previous operation was a refresh too
NoPass == [changed |-> {}, was |-> {}, again |-> FALSE]

\* sg observes one SetGroup request of an object with a handle, for as long as
\* the object lives and its keyboard reports the requested group.
\* keymap, g: the object (0: nothing observed) and the requested group;
\* old, viaPass: its cached group at the request and whether that came from refresh;
\* n: events carrying g sent to it since (2: two or more); passed: a refresh ran since
NoSg == [keymap |-> 0, g |-> 0, old |-> None, viaPass |-> FALSE, n |-> 0, passed |-> FALSE]

\* life observes one keymap object. keymap: the object (0: nothing observed);
\* before: the table's size right before its creation; made, died: the other
\* objects created and destroyed since; after: the table's size right after its
\* destroyed callback (-1: it has not run)
NoLife == [keymap |-> 0, before |-> 0, made |-> 0, died |-> 0, after |-> -1]

\* chg observes one keymap object with a handle from its creation for as long as
\* it lives. keymap: the object (0: nothing observed); ch: the changes of its
\* keyboard's layout since its creation (2: two or more); ev: the events sent to
\* it after the one of its creation (2: two or more); since: the layout changed
\* since the last event sent to it
NoChg == [keymap |-> 0, ch |-> 0, ev |-> 0, since |-> FALSE]

\* the injected visibility predicate (client_filter of KeymapState::new); the
\* host's policy here: client 1 is privileged, every other client is not
client_filter(c) == c = 1

\* variant of can_view: the filter is not consulted
can_viewAll(c) == TRUE

\* GlobalDispatch::can_view
can_view(c) == client_filter(c)

\* KeyboardHandle::from_resource: 0 stands for a wl_keyboard without a handle
from_resource(keyboard) == IF keyboard \in Keyboards THEN Some(keyboard) ELSE None

\* handle.with_xkb_state(state, |context| context.xkb().lock().unwrap().active_layout())
active_layout(handle) == layout[handle]

\* handle.with_xkb_state(state, |mut context| context.set_layout(Layout(group)))
set_layout(handle, group) == [layout EXCEPT ![handle] = group]

\* variant of position: the index of the last entry, whatever its identity
positionLast(ks, keymap) == Len(ks)

\* keymaps.iter().position(|(x, _)| x == keymap): 0 stands for None
RECURSIVE positionFrom(_, _, _)
positionFrom(ks, keymap, i) ==
  IF i > Len(ks) THEN 0
  ELSE IF ks[i].keymap = keymap THEN i
  ELSE positionFrom(ks, keymap, i + 1)

position(ks, keymap) == positionFrom(ks, keymap, 1)

\* variant of remove: Vec::truncate(idx - 1)
removeTruncate(ks, idx) == SubSeq(ks, 1, idx - 1)

\* Vec::remove(idx), 1-based
remove(ks, idx) == [i \in 1..(Len(ks) - 1) |-> IF i < idx THEN ks[i] ELSE ks[i + 1]]

\* the body of Dispatch<ZcosmicKeymapV1>::destroyed on the table
destroyedTable(ks, keymap) ==
  IF position(ks, keymap) # 0 THEN remove(ks, position(ks, keymap)) ELSE ks

\* variant of entryHandle: an object without a handle falls back to the first keyboard
entryHandleDefault(e) == IF data[e.keymap] # None THEN data[e.keymap] ELSE Some(1)

\* keymap.data::<KeymapUserData<D>>() and its handle
entryHandle(e) == data[e.keymap]

\* variant of refreshChanged: only an entry without a cached layout gets an event
refreshChangedUncached(e) ==
  /\ entryHandle(e) # None
  /\ e.last_layout = None

\* one iteration of the loop of refresh: does this entry get an event
refreshChanged(e) ==
  /\ entryHandle(e) # None
  /\ e.last_layout # Some(active_layout(entryHandle(e)[1]))

\* variant of refreshEntry: the cached layout is not updated
refreshEntryStale(e) == e

\* one iteration of the loop of refresh: the entry afterwards
refreshEntry(e) ==
  IF refreshChanged(e)
  THEN [e EXCEPT !.last_layout = Some(active_layout(entryHandle(e)[1]))]
  ELSE e

\* variant of refreshEvents: the loop breaks after the first event it sends
RECURSIVE refreshEventsFirst(_)
refreshEventsFirst(ks) ==
  IF ks = <<>> THEN <<>>
  ELSE IF refreshChanged(Head(ks))
       THEN << <<Head(ks).keymap, active_layout(entryHandle(Head(ks))[1])>> >>
       ELSE refreshEventsFirst(Tail(ks))

\* the events the loop of refresh sends, in iteration order
RECURSIVE refreshEvents(_)
refreshEvents(ks) ==
  IF ks = <<>> THEN <<>>
  ELSE (IF refreshChanged(Head(ks))
        THEN << <<Head(ks).keymap, active_layout(entryHandle(Head(ks))[1])>> >>
        ELSE <<>>) \o refreshEvents(Tail(ks))

\* the table after the loop of refresh
refreshTable(ks) == [i \in 1..Len(ks) |-> refreshEntry(ks[i])]

\* lastEvent after a sequence of events has been sent
RECURSIVE deliver(_, _)
deliver(le, evs) ==
  IF evs = <<>> THEN le
  ELSE deliver([le EXCEPT ![Head(evs)[1]] = Some(Head(evs)[2])], Tail(evs))

\* number of events of evs sent to keymap carrying group
RECURSIVE countEv(_, _, _)
countEv(evs, keymap, group) ==
  IF evs = <<>> THEN 0
  ELSE (IF Head(evs) = <<keymap, group>> THEN 1 ELSE 0) + countEv(Tail(evs), keymap, group)

\* number of events of evs sent to keymap
RECURSIVE countTo(_, _)
countTo(evs, keymap) ==
  IF evs = <<>> THEN 0
  ELSE (IF Head(evs)[1] = keymap THEN 1 ELSE 0) + countTo(Tail(evs), keymap)

\* the objects of a sequence of events
Receivers(evs) == {evs[i][1] : i \in 1..Len(evs)}

\* the objects in the table
TableIds == {keymaps[i].keymap : i \in 1..Len(keymaps)}

\* the keyboards whose layout differs from the one at the last refresh
ChangedSincePass == {h \in Keyboards : passLayout[h] # None /\ passLayout[h] # Some(layout[h])}

Min(a, b) == IF a < b THEN a ELSE b

\* the "pass" observer after an operation; gone: the objects it destroyed
ObservePass(isRefresh, gone) ==
  IF observe = "pass"
  THEN /\ passLayout' = IF isRefresh THEN [k \in Keyboards |-> Some(layout[k])]
                        ELSE passLayout
       /\ passLive' = IF isRefresh THEN TableIds ELSE passLive \ gone
       /\ passInfo' = IF isRefresh
                      THEN [changed |-> ChangedSincePass, was |-> passLive,
                            again |-> (op.name = "refresh")]
                      ELSE NoPass
  ELSE UNCHANGED <<passLayout, passLive, passInfo>>

\* the observed SetGroup after an operation that sent evs, left the keyboards
\* at newLayout and destroyed gone
sgAfter(evs, isRefresh, newLayout, gone) ==
  IF sg.keymap = 0 \/ sg.keymap \in gone \/ newLayout[data[sg.keymap][1]] # sg.g
  THEN NoSg
  ELSE [sg EXCEPT !.passed = @ \/ isRefresh,
                  !.n = Min(2, @ + countEv(evs, sg.keymap, sg.g))]

\* the "sg" observer after an operation; request: <<keymap, group>> of a SetGroup
\* on an object with a handle, which the observer may start to observe
ObserveSg(evs, isRefresh, newLayout, gone, request) ==
  IF observe = "sg"
  THEN /\ byPass' = IF isRefresh THEN byPass \cup Receivers(evs) ELSE byPass \ gone
       /\ \/ sg' = sgAfter(evs, isRefresh, newLayout, gone)
          \/ /\ request # <<>>
             /\ sg' = [keymap |-> request[1], g |-> request[2],
                       old |-> keymaps[position(keymaps, request[1])].last_layout,
                       viaPass |-> request[1] \in byPass, n |-> 0, passed |-> FALSE]
  ELSE UNCHANGED <<byPass, sg>>

\* the "life" observer after an operation. A client's objects are destroyed in
\* the order of their identities, so the objects of gone above the observed one
\* are still in the table right after its callback.
ObserveLife(gone) ==
  IF observe = "life"
  THEN IF life.keymap = 0
       THEN \/ life' = life
            \/ /\ nextId' # nextId
               /\ life' = [NoLife EXCEPT !.keymap = nextId, !.before = Len(keymaps)]
       ELSE IF life.after # -1
       THEN life' = life
       ELSE IF life.keymap \in gone
       THEN life' = [life EXCEPT
                       !.died = @ + Cardinality({k \in gone : k < life.keymap}),
                       !.after = Len(keymaps') + Cardinality({k \in gone : k > life.keymap})]
       ELSE life' = [life EXCEPT
                       !.made = @ + (IF nextId' # nextId THEN 1 ELSE 0),
                       !.died = @ + Cardinality(gone)]
  ELSE UNCHANGED life

\* the "chg" observer after an operation that sent evs, left the keyboards at
\* newLayout and destroyed gone
ObserveChg(evs, newLayout, gone) ==
  IF observe = "chg"
  THEN IF chg.keymap = 0
       THEN \/ chg' = chg
            \/ /\ nextId' # nextId
               /\ data'[nextId] # None
               /\ chg' = [NoChg EXCEPT !.keymap = nextId]
       ELSE IF chg.keymap \in gone
       THEN chg' = NoChg
       ELSE LET h == data[chg.keymap][1]
                changed == newLayout[h] # layout[h]
                n == countTo(evs, chg.keymap)
            IN chg' = [chg EXCEPT
                         !.ch = Min(2, @ + (IF changed THEN 1 ELSE 0)),
                         !.ev = Min(2, @ + n),
                         !.since = IF n > 0 THEN FALSE ELSE @ \/ changed]
  ELSE UNCHANGED chg

\* the "op" observer after an operation
ObserveOp(operation, isRefresh) ==
  op' = IF observe = "op" THEN operation
        ELSE [NoOp EXCEPT !.name = IF isRefresh THEN "refresh" ELSE "other"]

\* the observers that need no argument of the operation
Observe(evs, isRefresh, newLayout, gone, request) ==
  /\ observe' = observe
  /\ ObservePass(isRefresh, gone)
  /\ ObserveSg(evs, isRefresh, newLayout, gone, request)
  /\ ObserveLife(gone)
  /\ ObserveChg(evs, newLayout, gone)

\* the state after KeymapState::new, with one observer on
InitObserving(observer) ==
  /\ keymaps = <<>>
  /\ data = <<>>
  /\ layout \in [Keyboards -> Groups]
  /\ removed = [k \in Keyboards |-> 0]
  /\ managers = [c \in Clients |-> 0]
  /\ owner = <<>>
  /\ nextId = 1
  /\ destroyed = {}
  /\ emitted = <<>>
  /\ lastEvent = <<>>
  /\ op = NoOp
  /\ observe = observer
  /\ passLayout = [k \in Keyboards |-> None]
  /\ passLive = {}
  /\ passInfo = NoPass
  /\ byPass = {}
  /\ sg = NoSg
  /\ life = NoLife
  /\ chg = NoChg

Init == InitObserving("op")
InitPass == InitObserving("pass")
InitSg == InitObserving("sg")
InitLife == InitObserving("life")
InitChg == InitObserving("chg")
InitFair == InitObserving("none")

\* GlobalDispatch::bind, reachable only for clients that can_view the global
bind(c) ==
  /\ can_view(c)
  /\ managers[c] < MaxManagers
  /\ managers' = [managers EXCEPT ![c] = @ + 1]
  /\ emitted' = <<>>
  /\ ObserveOp([NoOp EXCEPT !.name = "bind", !.client = c], FALSE)
  /\ UNCHANGED <<removed, keymaps, data, layout, owner, nextId, destroyed, lastEvent>>
  /\ Observe(<<>>, FALSE, layout, {}, <<>>)

\* handle.as_ref().map(|handle| handle.with_xkb_state(.., active_layout()))
getKeymapActive(handle) ==
  IF handle # None THEN Some(active_layout(handle[1])) ELSE None

\* variant of getKeymapEvents: the initial event is not sent
getKeymapEventsNone(keymap, active) == <<>>

\* the events GetKeymap sends to the new object
getKeymapEvents(keymap, active) ==
  IF active # None THEN << <<keymap, active[1]>> >> ELSE <<>>

\* zcosmic_keymap_manager_v1::Request::GetKeymap { keymap, keyboard }
GetKeymap(c, keyboard) ==
  /\ managers[c] > 0
  /\ nextId <= MaxBindings
  /\ LET handle == from_resource(keyboard)
         active == getKeymapActive(handle)
         keymap == nextId
     IN /\ data' = Append(data, handle)
        /\ owner' = Append(owner, c)
        /\ emitted' = getKeymapEvents(keymap, active)
        /\ lastEvent' = deliver(Append(lastEvent, None), emitted')
        /\ keymaps' = Append(keymaps, [keymap |-> keymap, last_layout |-> active])
        /\ nextId' = nextId + 1
        /\ ObserveOp([NoOp EXCEPT !.name = "GetKeymap", !.keymap = keymap,
                              !.keyboard = keyboard], FALSE)
  /\ UNCHANGED <<removed, layout, managers, destroyed>>
  /\ Observe(emitted', FALSE, layout, {}, <<>>)

\* zcosmic_keymap_manager_v1::Request::Destroy
ManagerDestroy(c) ==
  /\ managers[c] > 0
  /\ managers' = [managers EXCEPT ![c] = @ - 1]
  /\ emitted' = <<>>
  /\ ObserveOp([NoOp EXCEPT !.name = "ManagerDestroy", !.client = c], FALSE)
  /\ UNCHANGED <<removed, keymaps, data, layout, owner, nextId, destroyed, lastEvent>>
  /\ Observe(<<>>, FALSE, layout, {}, <<>>)

\* variant of setGroupLayout: an object without a handle sets the first keyboard
setGroupLayoutDefault(handle, group) ==
  IF handle # None THEN set_layout(handle[1], group) ELSE set_layout(1, group)

\* the keyboards' layout after SetGroup on an object with this handle
setGroupLayout(handle, group) ==
  IF handle # None THEN set_layout(handle[1], group) ELSE layout

\* variant of setGroupKeymaps: the cached group of the entry is set at once
setGroupKeymapsSync(ks, keymap, group) ==
  [i \in 1..Len(ks) |->
     IF ks[i].keymap = keymap /\ data[keymap] # None
     THEN [ks[i] EXCEPT !.last_layout = Some(group)]
     ELSE ks[i]]

\* the table after SetGroup: the handler does not touch state.keymap_state()
setGroupKeymaps(ks, keymap, group) == ks

\* zcosmic_keymap_v1::Request::SetGroup { group }
SetGroup(keymap, group) ==
  /\ keymap \in Live
  /\ layout' = setGroupLayout(data[keymap], group)
  /\ keymaps' = setGroupKeymaps(keymaps, keymap, group)
  /\ emitted' = <<>>
  /\ ObserveOp([NoOp EXCEPT !.name = "SetGroup", !.keymap = keymap, !.group = group],
               FALSE)
  /\ UNCHANGED <<removed, data, managers, owner, nextId, destroyed, lastEvent>>
  /\ Observe(<<>>, FALSE, layout', {},
             IF data[keymap] # None THEN <<keymap, group>> ELSE <<>>)

\* the per-object state once these objects are destroyed: the user data is dropped
Dropped(f, gone, none) == [k \in DOMAIN f |-> IF k \in gone THEN none ELSE f[k]]

\* zcosmic_keymap_v1::Request::Destroy followed by the destroyed callback
KeymapDestroy(keymap) ==
  /\ keymap \in Live
  /\ keymaps' = destroyedTable(keymaps, keymap)
  /\ destroyed' = destroyed \cup {keymap}
  /\ data' = Dropped(data, {keymap}, None)
  /\ owner' = Dropped(owner, {keymap}, 0)
  /\ lastEvent' = Dropped(lastEvent, {keymap}, None)
  /\ emitted' = <<>>
  /\ ObserveOp([NoOp EXCEPT !.name = "KeymapDestroy", !.keymap = keymap], FALSE)
  /\ UNCHANGED <<removed, layout, managers, nextId>>
  /\ Observe(<<>>, FALSE, layout, {keymap}, <<>>)

\* the destroyed callback invoked for an identity that was already removed
DestroyedAgain(keymap) ==
  /\ keymap \in destroyed
  /\ keymaps' = destroyedTable(keymaps, keymap)
  /\ emitted' = <<>>
  /\ ObserveOp([NoOp EXCEPT !.name = "DestroyedAgain", !.keymap = keymap], FALSE)
  /\ UNCHANGED <<removed, data, layout, managers, owner, nextId, destroyed, lastEvent>>
  /\ Observe(<<>>, FALSE, layout, {}, <<>>)

\* the table after the destroyed callbacks of all of these objects
RECURSIVE destroyedAll(_, _)
destroyedAll(ks, S) ==
  IF S = {} THEN ks
  ELSE LET k == CHOOSE x \in S : \A y \in S : x <= y
       IN destroyedAll(destroyedTable(ks, k), S \ {k})

\* a client disconnects: its objects are destroyed, destroyed runs for each keymap
Disconnect(c) ==
  /\ managers[c] > 0 \/ \E k \in Live : owner[k] = c
  /\ LET mine == {k \in Live : owner[k] = c}
     IN /\ keymaps' = destroyedAll(keymaps, mine)
        /\ destroyed' = destroyed \cup mine
        /\ data' = Dropped(data, mine, None)
        /\ owner' = Dropped(owner, mine, 0)
        /\ lastEvent' = Dropped(lastEvent, mine, None)
        /\ managers' = [managers EXCEPT ![c] = 0]
        /\ emitted' = <<>>
        /\ ObserveOp([NoOp EXCEPT !.name = "Disconnect", !.client = c], FALSE)
        /\ UNCHANGED <<removed, layout, nextId>>
        /\ Observe(<<>>, FALSE, layout, mine, <<>>)

\* another subsystem (e.g. a keyboard shortcut) changes a keyboard's layout
ExternalSetLayout(handle, group) ==
  /\ removed[handle] = 0
  /\ layout[handle] # group
  /\ layout' = set_layout(handle, group)
  /\ emitted' = <<>>
  /\ ObserveOp([NoOp EXCEPT !.name = "ExternalSetLayout", !.keyboard = handle,
                            !.group = group], FALSE)
  /\ UNCHANGED <<removed, keymaps, data, managers, owner, nextId, destroyed, lastEvent>>
  /\ Observe(<<>>, FALSE, layout', {}, <<>>)

\* the keyboard device is removed from its seat. KeymapUserData keeps the
\* KeyboardHandle it was given, and with it the xkb state behind the handle.
RemoveKeyboard(handle) ==
  /\ removed[handle] = 0
  /\ removed' = [removed EXCEPT ![handle] = nextId]
  /\ emitted' = <<>>
  /\ ObserveOp([NoOp EXCEPT !.name = "RemoveKeyboard", !.keyboard = handle], FALSE)
  /\ UNCHANGED <<keymaps, data, layout, managers, owner, nextId, destroyed, lastEvent>>
  /\ Observe(<<>>, FALSE, layout, {}, <<>>)

\* KeymapState::refresh
refresh ==
  /\ keymaps' = refreshTable(keymaps)
  /\ emitted' = refreshEvents(keymaps)
  /\ lastEvent' = deliver(lastEvent, emitted')
  /\ ObserveOp([NoOp EXCEPT !.name = "refresh"], TRUE)
  /\ UNCHANGED <<removed, data, layout, managers, owner, nextId, destroyed>>
  /\ Observe(emitted', TRUE, layout, {}, <<>>)

Next ==
  \/ \E c \in Clients : bind(c)
  \/ \E c \in Clients, keyboard \in 0..NumKeyboards : GetKeymap(c, keyboard)
  \/ \E c \in Clients : ManagerDestroy(c)
  \/ \E k \in Ids, g \in Groups : SetGroup(k, g)
  \/ \E k \in Ids : KeymapDestroy(k)
  \/ \E k \in Ids : DestroyedAgain(k)
  \/ \E c \in Clients : Disconnect(c)
  \/ \E h \in Keyboards, g \in Groups : ExternalSetLayout(h, g)
  \/ refresh

\* the operations, and the removal of keyboard devices
NextRemoval ==
  \/ Next
  \/ \E h \in Keyboards : RemoveKeyboard(h)

\* the program with the last operation observed in full
Spec == Init /\ [][Next]_vars

\* the program with the last refresh observed
SpecPass == InitPass /\ [][Next]_vars

\* the program with one SetGroup request observed
SpecSg == InitSg /\ [][Next]_vars

\* the program with the life of one keymap object observed
SpecLife == InitLife /\ [][Next]_vars

\* the program with keyboard devices that can be removed
SpecRemoval == Init /\ [][NextRemoval]_vars

\* the program with refresh invoked again and again: the host calls
\* KeymapState::refresh in every cycle of its event loop
SpecFair == InitFair /\ [][Next]_vars /\ WF_vars(refresh)

\* the program with the layout changes and the events of one keymap object observed
SpecChg == InitChg /\ [][Next]_vars

TypeOK ==
  /\ nextId \in 1..(MaxBindings + 1)
  /\ destroyed \subseteq Created
  /\ DOMAIN data = Created

\* ---- helpers of the properties ----
Occurrences(k) == Cardinality({i \in 1..Len(keymaps) : keymaps[i].keymap = k})
Cached(k) == keymaps[position(keymaps, k)].last_layout
HasHandle(k) == data[k] # None
KeyboardOf(k) == data[k][1]

\* C1: the Binding Table holds exactly the bindings created and not yet
\* destroyed, each exactly once, and no destroyed binding.
C1_TableIsLiveSet ==
  /\ TableIds = Live
  /\ \A k \in Live : Occurrences(k) = 1
  /\ \A k \in destroyed : Occurrences(k) = 0

C1_Witness ==
  /\ destroyed # {}
  /\ Len(keymaps) >= 1
  /\ op.name = "refresh"

\* C2: GetKeymap for a resolvable keyboard appends the new binding with the
\* keyboard's active group as cached group and sends exactly one group event
\* with that value to it, the first event the binding ever gets.
C2_GetKeymapInitialEvent ==
  [][(op'.name = "GetKeymap" /\ op'.keymap = nextId /\ op'.keyboard \in Keyboards)
       => /\ keymaps' = Append(keymaps, [keymap |-> nextId,
                                         last_layout |-> Some(layout[op'.keyboard])])
          /\ emitted' = << <<nextId, layout[op'.keyboard]>> >>
          /\ nextId \notin DOMAIN lastEvent
          /\ lastEvent'[nextId] = Some(layout[op'.keyboard])
          /\ layout' = layout]_vars

C2_Witness ==
  /\ op.name = "GetKeymap"
  /\ op.keyboard \in Keyboards
  /\ Len(keymaps) = 2
  /\ emitted = << <<op.keymap, layout[op.keyboard]>> >>
  /\ keymaps[1].last_layout # keymaps[2].last_layout

\* C3: a binding created from an unresolvable keyboard reference has no
\* keyboard reference and no cached group, is in the table until destroyed,
\* and never gets a group event.
C3_InertBinding ==
  \A k \in Live :
    ~HasHandle(k) =>
      /\ lastEvent[k] = None
      /\ countTo(emitted, k) = 0
      /\ Occurrences(k) = 1
      /\ Cached(k) = None

C3_Witness ==
  /\ op.name = "refresh"
  /\ emitted # <<>>
  /\ \E k \in Live : ~HasHandle(k) /\ Cached(k) = None

\* C4 as stated: a refresh that finds a keyboard's group changed since the last
\* refresh sends exactly one event with the new group to each binding in the
\* table that references the keyboard, and caches the new group.
C4_EveryBindingGetsEvent ==
  [][op'.name = "refresh"
       => \A h \in ChangedSincePass : \A i \in 1..Len(keymaps) :
            data[keymaps[i].keymap] = Some(h)
              => /\ countEv(emitted', keymaps[i].keymap, layout[h]) = 1
                 /\ countTo(emitted', keymaps[i].keymap) = 1
                 /\ keymaps'[i].last_layout = Some(layout[h])]_vars

\* C4 amended: the same for each binding that was already in the table at the
\* last refresh; any binding gets at most one event per refresh, none when its
\* cached group already equals the keyboard's group, and ends up caching it.
C4_ChangePropagation ==
  [][op'.name = "refresh"
       => /\ \A h \in ChangedSincePass : \A i \in 1..Len(keymaps) :
               (data[keymaps[i].keymap] = Some(h) /\ keymaps[i].keymap \in passLive)
                 => /\ countEv(emitted', keymaps[i].keymap, layout[h]) = 1
                    /\ countTo(emitted', keymaps[i].keymap) = 1
          /\ \A i \in 1..Len(keymaps) :
               HasHandle(keymaps[i].keymap)
                 => /\ countTo(emitted', keymaps[i].keymap) <= 1
                    /\ keymaps[i].last_layout = Some(layout[KeyboardOf(keymaps[i].keymap)])
                         => countTo(emitted', keymaps[i].keymap) = 0
                    /\ Len(keymaps') = Len(keymaps)
                    /\ keymaps'[i].last_layout = Some(layout[KeyboardOf(keymaps[i].keymap)])]_vars

C4_Witness ==
  /\ op.name = "refresh"
  /\ \E k \in Live \cap passInfo.was :
       /\ HasHandle(k)
       /\ KeyboardOf(k) \in passInfo.changed
       /\ countEv(emitted, k, layout[KeyboardOf(k)]) = 1
       /\ Cached(k) = Some(layout[KeyboardOf(k)])

\* C5: a refresh that directly follows a refresh sends no event and leaves
\* every cached group unchanged.
C5_IdempotentRefresh ==
  [][(op.name = "refresh" /\ op'.name = "refresh")
       => /\ emitted' = <<>>
          /\ keymaps' = keymaps
          /\ lastEvent' = lastEvent]_vars

C5_Witness ==
  /\ op.name = "refresh"
  /\ passInfo.again
  /\ \E k \in Live : HasHandle(k) /\ Cached(k) = Some(layout[KeyboardOf(k)])

\* C6: after SetGroup(g) on a binding with a keyboard, while the keyboard
\* reports g, the refreshes together send the binding at most one event with g:
\* one if g differs from the group it had cached, none otherwise.
C6_AtMostOneEvent ==
  sg.keymap # 0
    => /\ sg.n <= 1
       /\ sg.passed => sg.n = (IF sg.old = Some(sg.g) THEN 0 ELSE 1)
       /\ ~sg.passed => sg.n = 0

C6_Witness ==
  /\ op.name = "refresh"
  /\ emitted = <<>>
  /\ sg.keymap \in Live
  /\ sg.passed
  /\ sg.n = 1

\* the binding is in the example scenario: its cached group 0 came from a
\* refresh, it then requested group 1 and its keyboard now reports group 1
InScenario(k) ==
  /\ k \in Live
  /\ HasHandle(k)
  /\ sg.keymap = k
  /\ sg.g = 1
  /\ sg.old = Some(0)
  /\ sg.viaPass
  /\ ~sg.passed
  /\ layout[KeyboardOf(k)] = 1

\* C7 as stated: in the example scenario the next refresh sends the binding
\* no event.
C7_ScenarioNoEvent ==
  [][op'.name = "refresh"
       => \A k \in Created : InScenario(k) => countTo(emitted', k) = 0]_vars

\* C7 amended: in the example scenario the next refresh reads group 1, finds it
\* different from the cached group 0, sends the binding exactly one event
\* group(1) and caches 1.
C7_ScenarioOneEvent ==
  [][op'.name = "refresh"
       => \A k \in Created :
            InScenario(k)
              => /\ countEv(emitted', k, 1) = 1
                 /\ countTo(emitted', k) = 1
                 /\ keymaps'[position(keymaps, k)].last_layout = Some(1)]_vars

C7_Witness ==
  /\ op.name = "refresh"
  /\ \E k \in Live :
       /\ sg.keymap = k /\ sg.g = 1 /\ sg.old = Some(0) /\ sg.viaPass
       /\ sg.passed /\ sg.n = 1
       /\ countEv(emitted, k, 1) = 1
       /\ Cached(k) = Some(1)

\* C8: SetGroup(group) on a binding with a keyboard sets that keyboard's group
\* to group and nothing else: the table with every cached group is unchanged
\* and no event is sent.
C8_SetGroupFrame ==
  [][(op'.name = "SetGroup" /\ HasHandle(op'.keymap))
       => /\ layout' = [layout EXCEPT ![KeyboardOf(op'.keymap)] = op'.group]
          /\ keymaps' = keymaps
          /\ emitted' = <<>>
          /\ lastEvent' = lastEvent]_vars

C8_Witness ==
  /\ op.name = "SetGroup"
  /\ HasHandle(op.keymap)
  /\ layout[KeyboardOf(op.keymap)] = op.group
  /\ Cached(op.keymap) # Some(op.group)
  /\ Len(keymaps) = 2

\* C9: SetGroup on a binding without a keyboard reference changes nothing: no
\* keyboard's group, no cached group, no table entry, and no event is sent.
C9_SetGroupInert ==
  [][(op'.name = "SetGroup" /\ ~HasHandle(op'.keymap))
       => /\ layout' = layout
          /\ keymaps' = keymaps
          /\ emitted' = <<>>
          /\ lastEvent' = lastEvent]_vars

C9_Witness ==
  /\ op.name = "SetGroup"
  /\ ~HasHandle(op.keymap)
  /\ \A h \in Keyboards : layout[h] # op.group
  /\ Len(keymaps) = 2

\* the table without the entries of these objects, the rest in order
Without(ks, S) == SelectSeq(ks, LAMBDA e : e.keymap \notin S)

C11_SizeRestored ==
  life.after # -1 => life.after = life.before + life.made - life.died

C11_Witness ==
  /\ life.after # -1
  /\ life.before = 1
  /\ life.made = 0
  /\ life.died = 1
  /\ life.after = 0

\* C12: a client the visibility predicate rejects never has a manager object or
\* a binding in the table, and no group event is sent to an object of its.
C12_InvisibleClientHasNothing ==
  \A c \in Clients :
    ~client_filter(c) =>
      /\ managers[c] = 0
      /\ \A k \in Created : owner[k] # c
      /\ \A i \in 1..Len(emitted) : owner[emitted[i][1]] # c

C12_Witness ==
  /\ \E c \in Clients : ~client_filter(c)
  /\ \E c \in Clients : client_filter(c) /\ managers[c] > 0
  /\ op.name = "refresh"
  /\ emitted # <<>>

\* the objects in a table and the cached group a table holds for one of them
IdsOf(ks) == {ks[i].keymap : i \in 1..Len(ks)}
CachedIn(ks, k) == ks[CHOOSE i \in 1..Len(ks) : ks[i].keymap = k].last_layout

\* the operation just done destroyed this object
DestroyedBy(operation, k) ==
  \/ operation.name = "KeymapDestroy" /\ operation.keymap = k
  \/ operation.name = "Disconnect" /\ operation.client = owner[k]

\* C13: a live binding's cached group changes only in a refresh or in response
\* to a SetGroup of its client; no operation other than its own destruction
\* removes it from the table.
C13_CacheChangesOnlyByRefresh ==
  [][\A k \in Live :
       ~DestroyedBy(op', k)
         => /\ k \in IdsOf(keymaps) /\ k \in IdsOf(keymaps')
            /\ CachedIn(keymaps', k) # CachedIn(keymaps, k)
                 => \/ op'.name = "refresh"
                    \/ op'.name = "SetGroup" /\ owner[op'.keymap] = owner[k]]_vars

C13_Witness ==
  /\ op.name = "KeymapDestroy"
  /\ op.keymap = 1
  /\ Len(keymaps) = 1
  /\ HasHandle(2)
  /\ Cached(2) # Some(layout[KeyboardOf(2)])

\* C14: a binding is removed from the table in the step that destroys it, and
\* from then on no operation sends it a group event or holds a cached group
\* for it.
C14_DestroyedIsGone ==
  [][/\ \A k \in Live : DestroyedBy(op', k) => k \in destroyed'
     /\ \A k \in destroyed' :
          /\ k \notin IdsOf(keymaps')
          /\ countTo(emitted', k) = 0]_vars

C14_Witness ==
  /\ op.name = "refresh"
  /\ 1 \in destroyed
  /\ 2 \in Live
  /\ HasHandle(2)
  /\ emitted = << <<2, layout[KeyboardOf(2)]>> >>

\* C15 as stated: one event per actual change -- after a refresh the events sent
\* to a binding with a keyboard since its creation event are as many as the
\* actual changes of its keyboard's group since its creation
C15_OneEventPerChange ==
  (op.name = "refresh" /\ chg.keymap # 0) => chg.ev = chg.ch

\* C15 amended: a binding with a keyboard gets an event only from refresh, at
\* most one per refresh, only after an actual change of its keyboard's group
\* since the last event sent to it, and exactly when the group differs from the
\* one last sent to it; so its events never outnumber the changes, and changes
\* made between two refreshes are coalesced
C15_EventPerObservedChange ==
  [][(chg.keymap # 0 /\ chg'.keymap = chg.keymap) =>
       LET k == chg.keymap
           n == countTo(emitted', k)
       IN /\ n <= 1
          /\ n = 1 => op'.name = "refresh" /\ chg.since
          /\ op'.name = "refresh" =>
               /\ n = 1 <=> lastEvent[k] # Some(layout[data[k][1]])
               /\ n = 1 => countEv(emitted', k, layout[data[k][1]]) = 1
          /\ chg'.ev <= chg'.ch]_vars

C15_Witness ==
  /\ op.name = "refresh"
  /\ chg.keymap # 0
  /\ chg.ch = 2
  /\ chg.ev = 1
  /\ countTo(emitted, chg.keymap) = 1
\* the table in another order of iteration, and the events of a sequence as a set
Reordered(ks, p) == [i \in 1..Len(ks) |-> ks[p[i]]]
EventSet(evs) == {evs[i] : i \in 1..Len(evs)}

\* C16: the outcome of refresh does not depend on the order of the table -- for
\* every reordering of the table refresh ran on, a pass over the reordered
\* table in the same keyboard state sends the same set of (binding, group)
\* events, as many of them, and leaves every binding the same cached group
C16_OrderIndependent ==
  [][op'.name = "refresh" =>
       \A p \in Permutations(1..Len(keymaps)) :
         LET ks == Reordered(keymaps, p)
         IN /\ EventSet(refreshEvents(ks)) = EventSet(emitted')
            /\ Len(refreshEvents(ks)) = Len(emitted')
            /\ \A k \in IdsOf(keymaps) :
                 CachedIn(refreshTable(ks), k) = CachedIn(keymaps', k)]_vars

\* refresh has sent events to two bindings, so the two orders of the table
\* send them in different orders
C16_Witness ==
  /\ op.name = "refresh"
  /\ Len(emitted) = 2
  /\ emitted[1][1] # emitted[2][1]
\* C17 as stated: once the keyboard of a binding created before has been
\* removed, refresh sends the binding no event and leaves its cached group, and
\* its SetGroup requests change no keyboard's layout
C17_RemovedKeyboardSkipped ==
  [][\A k \in Live : (HasHandle(k) /\ removed[KeyboardOf(k)] > k) =>
       /\ op'.name = "refresh" =>
            /\ countTo(emitted', k) = 0
            /\ CachedIn(keymaps', k) = CachedIn(keymaps, k)
       /\ (op'.name = "SetGroup" /\ op'.keymap = k) => layout' = layout]_vars
\* C18: the cached group of every live binding is the group of the last event
\* sent to it, and it is absent exactly when no event was ever sent to it
C18_CacheIsLastEvent ==
  \A k \in Live :
    /\ k \in IdsOf(keymaps)
    /\ CachedIn(keymaps, k) = lastEvent[k]
    /\ CachedIn(keymaps, k) = None <=> lastEvent[k] = None

\* refresh has just sent an event, a binding without a handle never got one
C18_Witness ==
  /\ op.name = "refresh"
  /\ \E k \in Live : countTo(emitted, k) = 1 /\ CachedIn(keymaps, k) = Some(emitted[1][2])
  /\ \E k \in Live : lastEvent[k] = None

\* C19: no event sent to a binding carries the group of the event sent to it
\* before, and no operation sends a binding two events
C19_NoRepeatedEvent ==
  [][\A i \in 1..Len(emitted') :
       LET k == emitted'[i][1]
       IN /\ countTo(emitted', k) = 1
          /\ k \in Live => lastEvent[k] # Some(emitted'[i][2])]_vars

\* refresh has left alone a binding whose last event carries its keyboard's group
C19_Witness ==
  /\ op.name = "refresh"
  /\ \E k \in Live :
       /\ HasHandle(k)
       /\ countTo(emitted, k) = 0
       /\ lastEvent[k] = Some(layout[KeyboardOf(k)])
\* binding k is live, has a handle, and its keyboard's active group is g
StableAt(k, g) == k \in Live /\ HasHandle(k) /\ layout[KeyboardOf(k)] = g

\* binding k is live, its cached group and the group of its last event are g
SyncedAt(k, g) ==
  /\ k \in Live
  /\ k \in IdsOf(keymaps)
  /\ CachedIn(keymaps, k) = Some(g)
  /\ lastEvent[k] = Some(g)

\* right after refresh every live binding with a handle caches its keyboard's group
SyncedAfterRefresh ==
  op.name = "refresh" =>
    \A k \in Live : HasHandle(k) =>
      /\ k \in IdsOf(keymaps)
      /\ CachedIn(keymaps, k) = Some(layout[KeyboardOf(k)])

\* C20: with refresh invoked again and again, a binding that stays alive while
\* its keyboard's group stays at g eventually has g as its cached group and as
\* the group of its last event, for good; and right after every refresh each
\* live binding with a handle caches its keyboard's current group
C20_EventuallySynchronized ==
  /\ []SyncedAfterRefresh
  /\ \A k \in Ids, g \in Groups : <>[]StableAt(k, g) => <>[]SyncedAt(k, g)

\* refresh has just brought a binding up to its keyboard's changed group
C20_Witness ==
  /\ op.name = "refresh"
  /\ \E k \in Live :
       /\ HasHandle(k)
       /\ countTo(emitted, k) = 1
       /\ SyncedAt(k, layout[KeyboardOf(k)])
====
